---------------------------- MODULE Spec2Model ----------------------------
(***************************************************************************)
(* A model of source/backend/engine/CarlaEngineRtAudio.cpp: the RtAudio    *)
(* engine driver of the Carla plugin host.                                 *)
(*                                                                         *)
(* Three kinds of thread run the code:                                     *)
(*   - the control thread: init, close, patchbayRefresh, connect and       *)
(*     disconnect of the rack MIDI ports;                                  *)
(*   - the RtAudio callback thread: handleAudioProcessCallback;            *)
(*   - one RtMidi callback thread for each open MIDI input handle:         *)
(*     handleMidiCallback.                                                 *)
(*                                                                         *)
(* Code of the engine that is not part of the file (CarlaEngine::init and  *)
(* close, the rack graph, runPendingRtEvents, processRackFull) and the     *)
(* RtAudio / RtMidi libraries appear through what the file reads and       *)
(* writes of them.                                                         *)
(***************************************************************************)
EXTENDS Integers, Sequences, FiniteSets, TLC

(***************************************************************************)
(* Bounds of the model.                                                    *)
(***************************************************************************)
\* the engine frame counter (pData->timeInfo.frame) ranges over 0..MaxFrame
MaxFrame == 4
\* events held by fMidiInEvents (both lists) when a MIDI callback is delivered
MaxQueue == 2
\* the same, when no audio cycle drains the queue
MaxPending == 3
\* RtMidiIn handles that can exist at once (one callback thread each), and
\* RtMidiOut handles that can exist at once
MaxHandles == 2
\* patchbayRefresh calls made by the host during one life of the rack graph
MaxRefresh == 2
\* audio connections the engine's graph holds (the four lists together)
MaxConnections == 2
\* capacity of pData->events.in; the engine's value, scaled to the model
kMaxEngineEventInternalCount == 1

(***************************************************************************)
(* Program constants.                                                      *)
(***************************************************************************)
\* EngineMidiEvent::kDataSize, the size of RtMidiEvent::data
kDataSize == 4

(***************************************************************************)
(* The state.                                                              *)
(***************************************************************************)
VARIABLES
    \* ---- CarlaEngineRtAudio members
    fAudioInCount,      \* uint
    fAudioOutCount,     \* uint
    fLastEventTime,     \* uint64_t
    fDeviceName,        \* CarlaString, "" when empty
    fMidiIns,           \* LinkedList<MidiPort>: sequence of [name, h]
    fMidiOuts,          \* LinkedList<MidiPort>: sequence of [name, h]
    data,               \* fMidiInEvents.data
    dataPending,        \* fMidiInEvents.dataPending
    mutex,              \* fMidiInEvents.mutex: who holds it (Free, ByAudio, ByCtl, ByMidi(h))
    midiInAlive,        \* the handles whose RtMidiIn object exists
    midiInCallback,     \* the RtMidiIn handles whose callback is registered
    midiOutAlive,       \* the handles whose RtMidiOut object exists
    \* ---- fAudio (RtAudio)
    stream,             \* "closed", "stopped" (open, not running) or "running"
    streamFrames,       \* the buffer size of the open stream, as openStream settled it
    streamRate,         \* fAudio.getStreamSampleRate() of the open stream
    \* ---- pData (CarlaEngine::ProtectedData)
    options,            \* pData->options as the host set them
    isReady,            \* pData->audio.isReady
    bufferSize,         \* pData->bufferSize
    sampleRate,         \* pData->sampleRate
    frame,              \* pData->timeInfo.frame
    eventsIn,           \* pData->events.in, the entries filled in by a cycle
    lastError,          \* the engine's last-error string
    rack,               \* pData->graph.rack, the RackGraph (alive = FALSE: none)
    \* ---- the threads
    ctl,                \* control thread: position and locals
    aud,                \* RtAudio callback thread: position and locals
    mid,                \* RtMidi callback threads, by handle: position and locals
    \* ---- the native MIDI ports the platform shows
    midiSources,        \* names RtMidiIn::getPortName lists
    midiSinks           \* names RtMidiOut::getPortName lists

drvVars   == <<fAudioInCount, fAudioOutCount, fLastEventTime, fDeviceName>>
portVars  == <<fMidiIns, fMidiOuts, midiInAlive, midiInCallback, midiOutAlive>>
queueVars == <<data, dataPending, mutex>>
strmVars  == <<stream, streamFrames, streamRate>>
engVars   == <<options, isReady, bufferSize, sampleRate, lastError, rack>>
envVars   == <<midiSources, midiSinks>>
vars == <<drvVars, portVars, queueVars, strmVars, engVars, envVars,
          frame, eventsIn, ctl, aud, mid>>

Handles == 1..MaxHandles

Min(a, b) == IF a < b THEN a ELSE b

\* a double holding the exact rational n/d (d > 0)
Rat(n, d) == [n |-> n, d |-> d]

\* s1 is a prefix of s2
IsPrefix(s1, s2) ==
    /\ Len(s1) <= Len(s2)
    /\ \A i \in 1..Len(s1) : s1[i] = s2[i]


(***************************************************************************)
(* What the host and the platform supply.                                  *)
(***************************************************************************)
\* RtAudio::DeviceInfo, the fields init reads
Device(n, p, i, o) == [name |-> n, probed |-> p, inputChannels |-> i, outputChannels |-> o]

DevDuplex  == Device("hw:duplex", TRUE, 1, 2)
DevNoOut   == Device("hw:mic", TRUE, 2, 0)
DevNoIn    == Device("hw:dac", TRUE, 0, 1)
DevUnprobed == Device("hw:busy", FALSE, 0, 2)

\* the device lists fAudio.getDeviceInfo(0..devCount-1) can show
DeviceLists ==
    { <<>>, <<DevDuplex>>, <<DevNoOut, DevDuplex>>, <<DevUnprobed, DevNoIn>> }

BufferSizes == {2, 4}
SampleRates == {44100, 48000}

\* the audio subsystem as one call of init meets it: the devices, the default
\* devices, whether openStream / startStream throw RtError, and the buffer
\* size and sample rate the stream settles on
Subsystems ==
    { s \in [ devs : DeviceLists, defIn : 1..2, defOut : 1..2,
              openThrows : BOOLEAN, frames : BufferSizes, rate : SampleRates,
              startThrows : BOOLEAN ] :
        \/ s.devs = <<>> /\ s.defIn = 1 /\ s.defOut = 1
        \/ s.devs # <<>> /\ s.defIn <= Len(s.devs) /\ s.defOut <= Len(s.devs) }

ProcessModes == {"CONTINUOUS_RACK", "PATCHBAY", "SINGLE_CLIENT"}
DeviceNames  == {"", "hw:duplex", "hw:mic", "hw:busy"}

\* pData->options, the fields init reads
Options ==
    [ processMode : ProcessModes, audioDevice : DeviceNames,
      audioBufferSize : {2}, audioSampleRate : {44100} ]

\* the native MIDI ports the platform can show
MidiSourceLists == { <<>>, <<"in:a", "in:b">> }
MidiSinkLists   == { <<"out:a">> }
\* the timeStamp values RtMidi hands to the callback (seconds, as exact
\* rationals): negative, zero, inside the period, far beyond it
RawStamps == { Rat(0 - 100, 100), Rat(60, 100), Rat(300, 100) }
\* the sizes of the messages RtMidi hands to the callback
MessageSizes == {0, kDataSize, kDataSize + 1}
\* the hardware audio port ids the engine's graph can hold as connected
AudioPortIds == {0, 2}
\* the port names the host asks for
MidiInNames  == {"in:a", "in:b", "in:gone"}
MidiOutNames == {"out:a", "out:gone"}

(***************************************************************************)
(* Thread records.                                                         *)
(***************************************************************************)
\* holders of fMidiInEvents.mutex
Free      == [by |-> "free", h |-> 0]
ByAudio   == [by |-> "audio", h |-> 0]
ByCtl     == [by |-> "ctl", h |-> 0]
ByMidi(h) == [by |-> "midi", h |-> h]

\* a control operation: its name and return value, the fDeviceName it met and,
\* for init, what it was given: an invalid process mode, no devices, a
\* configured device name that is the name of a device without outputs, a
\* configured device name that is the name of a probed device with outputs,
\* a default output device without outputs, openStream / startStream throwing;
\* for close: CarlaEngine::close failing, stopStream throwing; for the MIDI
\* port calls: the native port not being visible, openPort throwing, the call
\* being left by an exception (threw, there is no return value then) and the
\* names in fMidiIns when the call began; for patchbayRefresh: what the call
\* did, in program order (history)
NoCall ==
    [op |-> "none", ret |-> TRUE, preDev |-> "", badMode |-> FALSE, noDevices |-> FALSE,
     namedNoOut |-> FALSE, namedWithOut |-> FALSE, defaultNoOut |-> FALSE,
     openThrows |-> FALSE, startThrows |-> FALSE,
     engineFailed |-> FALSE, stopThrows |-> FALSE,
     notFound |-> FALSE, threw |-> FALSE, portName |-> "", preIns |-> {},
     emitted |-> <<>>]

\* control thread: pc; the operation that called close ("host" or "init") and
\* the e.what() init keeps across that call; close's hasError; a loop index
\* and the record of the call in progress
CtlIdle == [pc |-> "idle", caller |-> "host", hasError |-> FALSE, err |-> "", i |-> 0,
            call |-> NoCall]
\* audio thread: pc; the callback's nframes; whether tryLock succeeded; the
\* output region (nframes * output channels samples, each "stale" as the
\* driver handed it over, "zero" or "audio"); the path the cycle took to
\* runPendingRtEvents and the calls of processRackFull it made (history)
AudIdle == [pc |-> "idle", nframes |-> 0, locked |-> FALSE, outs |-> <<>>,
            path |-> "none", processed |-> 0]
\* MIDI thread: pc; midiEvent.time and midiEvent.size (the message size when
\* the callback returns early); and, kept for the step after line 719 only,
\* the callback's timeStamp and the frame counter and buffer size line 719
\* read (history)
MidIdle == [pc |-> "idle", time |-> 0, size |-> 0, raw |-> Rat(0, 1), base |-> 0, bs |-> 0]

\* no RackGraph: before CarlaEngine::init, after CarlaEngine::close (refreshes
\* counts the calls of patchbayRefreshRack; trace is empty but inside one)
NoRack ==
    [alive |-> FALSE, midiIns |-> <<>>, midiOuts |-> <<>>, list |-> <<>>, lastId |-> 0,
     connectedIn1 |-> <<>>, connectedIn2 |-> <<>>, connectedOut1 |-> <<>>,
     connectedOut2 |-> <<>>, refreshes |-> 0, trace |-> <<>>]

\* pData->graph.isRack, set with the graph by CarlaEngine::init
isRack == options.processMode = "CONTINUOUS_RACK"

(***************************************************************************)
(* The state after construction.                                           *)
(***************************************************************************)
Init ==
    /\ fAudioInCount = 0
    /\ fAudioOutCount = 0
    /\ fLastEventTime = 0
    /\ fDeviceName = ""
    /\ fMidiIns = <<>>
    /\ fMidiOuts = <<>>
    /\ midiInAlive = {}
    /\ midiInCallback = {}
    /\ midiOutAlive = {}
    /\ data = <<>>
    /\ dataPending = <<>>
    /\ mutex = Free
    /\ stream = "closed"
    /\ streamFrames = 0
    /\ streamRate = 0
    /\ options \in {o \in Options : o.processMode = "CONTINUOUS_RACK" /\ o.audioDevice = ""}
    /\ isReady = FALSE
    /\ bufferSize = 0
    /\ sampleRate = 0
    /\ frame = 0
    /\ eventsIn = <<>>
    /\ lastError = ""
    /\ rack = NoRack
    /\ ctl = CtlIdle
    /\ aud = AudIdle
    /\ mid = [h \in Handles |-> MidIdle]
    /\ midiSources \in MidiSourceLists
    /\ midiSinks \in MidiSinkLists


(***************************************************************************)
(* init, lines 201-315.                                                    *)
(***************************************************************************)
\* lines 223-253 without the test of outputChannels at line 232: a device
\* selection that takes the configured device whatever its outputs
SelectDevice_anyChannels(o, s) ==
    LET match == { i \in 1..Len(s.devs) :
                       s.devs[i].probed /\ s.devs[i].name = o.audioDevice }
        first == CHOOSE i \in match : \A j \in match : i <= j
    IN  IF o.audioDevice # "" /\ match # {}
        THEN [deviceSet |-> TRUE, name |-> s.devs[first].name,
              iChannels |-> s.devs[first].inputChannels,
              oChannels |-> s.devs[first].outputChannels]
        ELSE [deviceSet |-> FALSE, name |-> fDeviceName,
              iChannels |-> s.devs[s.defIn].inputChannels,
              oChannels |-> s.devs[s.defOut].outputChannels]

\* lines 223-253: the device init settles on. The configured name is matched
\* against the probed devices that have outputs; with no match the default
\* input and output devices are taken.
SelectDevice(o, s) ==
    LET match == { i \in 1..Len(s.devs) :
                       /\ s.devs[i].probed
                       /\ s.devs[i].outputChannels > 0
                       /\ s.devs[i].name = o.audioDevice }
        first == CHOOSE i \in match : \A j \in match : i <= j
    IN  IF o.audioDevice # "" /\ match # {}
        THEN [deviceSet |-> TRUE, name |-> s.devs[first].name,
              iChannels |-> s.devs[first].inputChannels,
              oChannels |-> s.devs[first].outputChannels]
        ELSE [deviceSet |-> FALSE, name |-> fDeviceName,
              iChannels |-> s.devs[s.defIn].inputChannels,
              oChannels |-> s.devs[s.defOut].outputChannels]

\* the record of a call that returns ret
Returned(op, ret) == [NoCall EXCEPT !.op = op, !.ret = ret, !.preDev = fDeviceName]

\* the control thread at the return of a call
AtReturn(call) == [CtlIdle EXCEPT !.pc = "returned", !.call = call]

\* the return of a control operation to the host
ctl_return ==
    /\ ctl.pc = "returned"
    /\ ctl' = CtlIdle
    /\ UNCHANGED <<drvVars, portVars, queueVars, strmVars, engVars, envVars, frame,
                   eventsIn, aud, mid>>

\* what a call of init is given (history)
InitCall(o, s) ==
    [NoCall EXCEPT
        !.op = "init", !.ret = FALSE, !.preDev = fDeviceName,
        !.badMode = o.processMode \notin {"CONTINUOUS_RACK", "PATCHBAY"},
        !.noDevices = (s.devs = <<>>),
        !.namedNoOut = (o.audioDevice # "" /\ \E i \in 1..Len(s.devs) :
                           s.devs[i].name = o.audioDevice /\ s.devs[i].outputChannels = 0),
        !.namedWithOut = (o.audioDevice # "" /\ \E i \in 1..Len(s.devs) :
                           /\ s.devs[i].name = o.audioDevice
                           /\ s.devs[i].probed
                           /\ s.devs[i].outputChannels > 0),
        !.defaultNoOut = (s.devs # <<>> /\ s.devs[s.defOut].outputChannels = 0),
        !.openThrows = s.openThrows, !.startThrows = s.startThrows]

\* lines 203-205: init called on a driver that is not in its closed state
init_rejected ==
    /\ ctl.pc = "idle"
    /\ fAudioInCount # 0 \/ fAudioOutCount # 0 \/ fLastEventTime # 0
    /\ ctl' = AtReturn(Returned("init:assert", FALSE))
    /\ UNCHANGED <<drvVars, portVars, queueVars, strmVars, engVars, envVars, frame,
                   eventsIn, aud, mid>>

\* line 269 alone: bufferFrames as init requested it
bufferFrames_requested(o, s) == o.audioBufferSize

\* lines 269-272: bufferFrames after openStream, which writes the buffer size
\* the stream settled on over the requested one
bufferFrames(o, s) == s.frames

\* line 280: fAudio.getStreamSampleRate()
getStreamSampleRate(s) == s.rate

\* lines 206-307: from the checks of init to the return of startStream, with
\* the options o and the audio subsystem s. No callback thread runs before
\* startStream returns.
init_body(o, s) ==
    /\ options' = o
    /\ IF o.processMode # "CONTINUOUS_RACK" /\ o.processMode # "PATCHBAY"
       THEN \* 209-213
            /\ lastError' = "Invalid process mode"
            /\ ctl' = AtReturn(InitCall(o, s))
            /\ UNCHANGED <<drvVars, strmVars, bufferSize, sampleRate>>
       ELSE IF Len(s.devs) = 0
       THEN \* 215-221
            /\ lastError' = "No audio devices available for this driver"
            /\ ctl' = AtReturn(InitCall(o, s))
            /\ UNCHANGED <<drvVars, strmVars, bufferSize, sampleRate>>
       ELSE LET sel == SelectDevice(o, s) IN
       IF sel.oChannels = 0
       THEN \* 255-259
            /\ fDeviceName' = sel.name
            /\ lastError' = "Current audio setup has no outputs, cannot continue"
            /\ ctl' = AtReturn(InitCall(o, s))
            /\ UNCHANGED <<fAudioInCount, fAudioOutCount, fLastEventTime, strmVars,
                           bufferSize, sampleRate>>
       ELSE IF s.openThrows
       THEN \* 271-277
            /\ fDeviceName' = sel.name
            /\ lastError' = "RtError: openStream"
            /\ ctl' = AtReturn(InitCall(o, s))
            /\ UNCHANGED <<fAudioInCount, fAudioOutCount, fLastEventTime, strmVars,
                           bufferSize, sampleRate>>
       ELSE \* 279-300
            /\ fDeviceName' = sel.name
            /\ streamFrames' = s.frames
            /\ streamRate' = s.rate
            /\ bufferSize' = bufferFrames(o, s)
            /\ sampleRate' = getStreamSampleRate(s)
            /\ fAudioInCount' = sel.iChannels
            /\ fAudioOutCount' = sel.oChannels
            /\ fLastEventTime' = 0
            /\ lastError' = lastError
            /\ IF s.startThrows
               THEN \* 302-304: close() is called, then lines 305-306
                    /\ stream' = "stopped"
                    /\ ctl' = [CtlIdle EXCEPT !.pc = "close_enter", !.caller = "init",
                                              !.err = "RtError: startStream",
                                              !.call = InitCall(o, s)]
               ELSE /\ stream' = "running"
                    /\ ctl' = [CtlIdle EXCEPT !.pc = "init_ready",
                                              !.call = InitCall(o, s)]

\* init, lines 201-307, with any of the options O and audio subsystems S
init_enter(O, S) ==
    /\ ctl.pc = "idle"
    /\ fAudioInCount = 0 /\ fAudioOutCount = 0 /\ fLastEventTime = 0
    /\ \E o \in O, s \in S : init_body(o, s)
    /\ UNCHANGED <<portVars, queueVars, envVars, isReady, rack, frame, eventsIn,
                   aud, mid>>

\* CarlaEngine::init (called at line 309) builds the graph: the rack when
\* the process mode is the continuous rack
CarlaEngine_init ==
    IF isRack THEN [NoRack EXCEPT !.alive = TRUE] ELSE NoRack

\* lines 309-310
init_ready ==
    /\ ctl.pc = "init_ready"
    /\ rack' = CarlaEngine_init
    /\ isReady' = TRUE
    /\ ctl' = [ctl EXCEPT !.pc = "init_refresh"]
    /\ UNCHANGED <<drvVars, portVars, queueVars, strmVars, envVars, options, bufferSize,
                   sampleRate, lastError, frame, eventsIn, aud, mid>>

(***************************************************************************)
(* patchbayRefresh, lines 401-608.                                         *)
(***************************************************************************)
\* the groups and the ports of the internal group (enum values of the engine)
RACK_GRAPH_GROUP ==
    [CARLA |-> 0, AUDIO_IN |-> 1, AUDIO_OUT |-> 2, MIDI_IN |-> 3, MIDI_OUT |-> 4]
RACK_GRAPH_CARLA_PORT ==
    [AUDIO_IN1 |-> 1, AUDIO_IN2 |-> 2, AUDIO_OUT1 |-> 3, AUDIO_OUT2 |-> 4,
     MIDI_IN |-> 5, MIDI_OUT |-> 6]

\* PortNameToId::setData for the i-th visible port (i from 1; ports count from 0)
PortNameToId(group, names) ==
    [i \in 1..Len(names) |-> [group |-> group, port |-> i - 1, name |-> names[i]]]

\* rack->midi.getPortId: the port of the first entry with that name, and the
\* length of the list when there is none
getPortId(list, name) ==
    LET hits == { i \in 1..Len(list) : list[i].name = name }
    IN  IF hits = {} THEN Len(list)
        ELSE list[CHOOSE i \in hits : \A j \in hits : i <= j].port

\* rack->connections.clear() restarting the counter
connections_clear_resetsLastId(r) == [r EXCEPT !.list = <<>>, !.lastId = 0]

\* rack->connections.clear() (line 419)
connections_clear(r) == [r EXCEPT !.list = <<>>]

Endpoints(gA, pA, gB, pB) == [groupA |-> gA, portA |-> pA, groupB |-> gB, portB |-> pB]

\* one thing a refresh did: k is "clear" (line 419), "group" and "port" (the
\* CLIENT_ADDED and PORT_ADDED callbacks, with the group in groupA and the
\* port in portA), "lock" and "unlock" (lines 511, 573), and per connection
\* "lastId" (the increment), "connection" (the CONNECTION_ADDED callback)
\* and "append"
Did(k, id, e) == [k |-> k, id |-> id] @@ e
DidGroup(g)   == Did("group", 0, Endpoints(g, 0, 0, 0))
DidPort(g, p) == Did("port", 0, Endpoints(g, p, 0, 0))
DidStep(k)    == Did(k, 0, Endpoints(0, 0, 0, 0))

\* One connection loop (lines 513-526 and its five siblings): every port id of
\* ids that passes the range check (portId < limit) gets the next id, is
\* announced and is appended, with the endpoints eps gives for it.
RECURSIVE ConnectionLoop(_, _, _, _)
\* the loop with lastId read and never written: every connection gets the
\* id that follows the lastId the refresh met
ConnectionLoop_noIncrement(r, ids, limit, eps) ==
    IF ids = <<>> THEN r
    ELSE IF ~(Head(ids) < limit)
         THEN ConnectionLoop(r, Tail(ids), limit, Tail(eps))
         ELSE LET id == r.lastId + 1
                  c  == [id |-> id] @@ Head(eps)
              IN  ConnectionLoop([r EXCEPT !.list = Append(@, c),
                                           !.trace = @ \o << Did("lastId", id, Head(eps)),
                                                             Did("connection", id, Head(eps)),
                                                             Did("append", id, Head(eps)) >>],
                                 Tail(ids), limit, Tail(eps))

\* the loop with the connection id passed to setData where portA belongs
ConnectionLoop_idAsPort(r, ids, limit, eps) ==
    IF ids = <<>> THEN r
    ELSE IF ~(Head(ids) < limit)
         THEN ConnectionLoop(r, Tail(ids), limit, Tail(eps))
         ELSE LET id == r.lastId + 1
                  e  == [Head(eps) EXCEPT !.portA = id]
                  c  == [id |-> id] @@ e
              IN  ConnectionLoop([r EXCEPT !.lastId = id, !.list = Append(@, c),
                                           !.trace = @ \o << Did("lastId", id, e),
                                                             Did("connection", id, e),
                                                             Did("append", id, e) >>],
                                 Tail(ids), limit, Tail(eps))

ConnectionLoop(r, ids, limit, eps) ==
    IF ids = <<>> THEN r
    ELSE IF ~(Head(ids) < limit)
         THEN ConnectionLoop(r, Tail(ids), limit, Tail(eps))
         ELSE LET id == r.lastId + 1
                  c  == [id |-> id] @@ Head(eps)
              IN  ConnectionLoop([r EXCEPT !.lastId = id, !.list = Append(@, c),
                                           !.trace = @ \o << Did("lastId", id, Head(eps)),
                                                             Did("connection", id, Head(eps)),
                                                             Did("append", id, Head(eps)) >>],
                                 Tail(ids), limit, Tail(eps))

\* the endpoints of the connections from hardware ports ids to an internal port
ToCarla(group, ids, port) ==
    [i \in 1..Len(ids) |-> Endpoints(group, ids[i], RACK_GRAPH_GROUP.CARLA, port)]
\* the endpoints of the connections from an internal port to hardware ports ids
FromCarla(port, group, ids) ==
    [i \in 1..Len(ids) |-> Endpoints(RACK_GRAPH_GROUP.CARLA, port, group, ids[i])]

\* lines 424-508: the callbacks for the five groups and their ports
Announced ==
    LET G == RACK_GRAPH_GROUP
    IN  <<DidGroup(G.CARLA)>> \o [p \in 1..6 |-> DidPort(G.CARLA, p)]
        \o <<DidGroup(G.AUDIO_IN)>> \o [i \in 1..fAudioInCount |-> DidPort(G.AUDIO_IN, i - 1)]
        \o <<DidGroup(G.AUDIO_OUT)>> \o [i \in 1..fAudioOutCount |-> DidPort(G.AUDIO_OUT, i - 1)]
        \o <<DidGroup(G.MIDI_IN)>> \o [i \in 1..Len(midiSources) |-> DidPort(G.MIDI_IN, i - 1)]
        \o <<DidGroup(G.MIDI_OUT)>> \o [i \in 1..Len(midiSinks) |-> DidPort(G.MIDI_OUT, i - 1)]

\* lines 415-608
patchbayRefreshRack(r) ==
    LET G  == RACK_GRAPH_GROUP
        P  == RACK_GRAPH_CARLA_PORT
        \* 468-508: the visible MIDI ports are appended to the port tables
        ins  == r.midiIns \o PortNameToId(G.MIDI_IN, midiSources)
        outs == r.midiOuts \o PortNameToId(G.MIDI_OUT, midiSinks)
        \* 419: the clear; 424-508: the callbacks; 511: the lock
        r1 == [connections_clear(r) EXCEPT
                  !.midiIns = ins, !.midiOuts = outs,
                  !.trace = <<DidStep("clear")>> \o Announced \o <<DidStep("lock")>>]
        \* 513-571
        r2 == ConnectionLoop(r1, r.connectedIn1, fAudioInCount,
                             ToCarla(G.AUDIO_IN, r.connectedIn1, P.AUDIO_IN1))
        r3 == ConnectionLoop(r2, r.connectedIn2, fAudioInCount,
                             ToCarla(G.AUDIO_IN, r.connectedIn2, P.AUDIO_IN2))
        r4 == ConnectionLoop(r3, r.connectedOut1, fAudioOutCount,
                             FromCarla(P.AUDIO_OUT1, G.AUDIO_OUT, r.connectedOut1))
        r5 == ConnectionLoop(r4, r.connectedOut2, fAudioOutCount,
                             FromCarla(P.AUDIO_OUT2, G.AUDIO_OUT, r.connectedOut2))
        \* 573: the unlock
        r5u == [r5 EXCEPT !.trace = @ \o <<DidStep("unlock")>>]
        \* 575-607
        inIds  == [i \in 1..Len(fMidiIns)  |-> getPortId(ins, fMidiIns[i].name)]
        outIds == [i \in 1..Len(fMidiOuts) |-> getPortId(outs, fMidiOuts[i].name)]
        r6 == ConnectionLoop(r5u, inIds, Len(ins),
                             ToCarla(G.MIDI_IN, inIds, P.MIDI_IN))
        r7 == ConnectionLoop(r6, outIds, Len(outs),
                             FromCarla(P.MIDI_OUT, G.MIDI_OUT, outIds))
    IN  [r7 EXCEPT !.refreshes = @ + 1]

\* lines 401-413: the rack after patchbayRefresh, when the driver is ready
\* (trace: what the call did)
patchbayRefresh_rack ==
    IF isRack THEN patchbayRefreshRack(rack) ELSE [rack EXCEPT !.trace = <<>>]

\* lines 401-413 without the assertion of line 403
patchbayRefresh_body_unguarded(done, failed) ==
    LET refreshed == patchbayRefresh_rack
    IN  /\ rack' = [refreshed EXCEPT !.trace = <<>>]
        /\ ctl' = AtReturn([done EXCEPT !.emitted = refreshed.trace])

\* lines 401-413: the assertion on isReady (403), then the refresh. The
\* caller's record of the call is done when the refresh ran (with what the
\* refresh did) and failed when the assertion ended the call.
patchbayRefresh_body(done, failed) ==
    IF isReady
    THEN LET refreshed == patchbayRefresh_rack
         IN  /\ rack' = [refreshed EXCEPT !.trace = <<>>]
             /\ ctl' = AtReturn([done EXCEPT !.emitted = refreshed.trace])
    ELSE /\ rack' = rack
         /\ ctl' = AtReturn(failed)

\* lines 312-314: init ends with patchbayRefresh, whose result it ignores,
\* and returns true
init_refresh ==
    /\ ctl.pc = "init_refresh"
    /\ patchbayRefresh_body([ctl.call EXCEPT !.ret = TRUE], [ctl.call EXCEPT !.ret = TRUE])
    /\ UNCHANGED <<drvVars, portVars, queueVars, strmVars, envVars, options, isReady,
                   bufferSize, sampleRate, lastError, frame, eventsIn, aud, mid>>

\* patchbayRefresh called by the host
patchbayRefresh ==
    /\ ctl.pc = "idle"
    /\ rack.refreshes <= MaxRefresh
    /\ patchbayRefresh_body(Returned("patchbayRefresh", TRUE),
                            Returned("patchbayRefresh", FALSE))
    /\ UNCHANGED <<drvVars, portVars, queueVars, strmVars, envVars, options, isReady,
                   bufferSize, sampleRate, lastError, frame, eventsIn, aud, mid>>

\* RackGraph::connect for an audio connection: a hardware port id is appended
\* to one of the four lists of rack->audio
rack_connectAudio(which, portId) ==
    /\ ctl.pc = "idle"
    /\ rack.alive
    /\ Len(rack.connectedIn1) + Len(rack.connectedIn2) + Len(rack.connectedOut1)
          + Len(rack.connectedOut2) < MaxConnections
    /\ rack' = [rack EXCEPT ![which] = Append(@, portId)]
    /\ UNCHANGED <<drvVars, portVars, queueVars, strmVars, envVars, options, isReady,
                   bufferSize, sampleRate, lastError, frame, eventsIn, ctl, aud, mid>>

\* the platform: the last native MIDI source disappears
midiSources_unplug ==
    /\ Len(midiSources) > 1
    /\ midiSources' = SubSeq(midiSources, 1, Len(midiSources) - 1)
    /\ UNCHANGED <<drvVars, portVars, queueVars, strmVars, engVars, midiSinks, frame,
                   eventsIn, ctl, aud, mid>>

(***************************************************************************)
(* close, lines 317-376.  It is called by the host, and by init at line    *)
(* 304 when startStream threw.                                             *)
(***************************************************************************)
\* lines 319-324. CarlaEngine::close() drops the graph; when it fails it has
\* recorded its own error.
close_enter ==
    /\ ctl.pc \in {"idle", "close_enter"}
    /\ isReady' = FALSE
    /\ rack' = NoRack
    /\ \E engineClosed \in BOOLEAN :
          /\ ctl' = [(IF ctl.pc = "idle" THEN CtlIdle ELSE ctl) EXCEPT
                        !.pc = "close_stream", !.hasError = ~engineClosed,
                        !.call.engineFailed = ~engineClosed]
          /\ lastError' = IF engineClosed THEN lastError ELSE "CarlaEngine::close failed"
    /\ UNCHANGED <<drvVars, portVars, queueVars, strmVars, envVars, options, bufferSize,
                   sampleRate, frame, eventsIn, aud, mid>>

\* lines 326-344 with a stopStream error ending the call: close returns false
\* at once
close_stream_abortsOnError ==
    /\ ctl.pc = "close_stream"
    /\ stream = "running" => aud.pc = "idle"
    /\ \E stopThrows \in (IF stream = "running" THEN BOOLEAN ELSE {FALSE}) :
          IF stopThrows
          THEN /\ lastError' = IF ctl.hasError THEN lastError ELSE "RtError: stopStream"
               /\ ctl' = AtReturn([Returned("close", FALSE) EXCEPT !.stopThrows = TRUE])
               /\ UNCHANGED strmVars
          ELSE /\ lastError' = lastError
               /\ ctl' = [ctl EXCEPT !.pc = "close_midi", !.i = 1]
               /\ stream' = "closed"
               /\ streamFrames' = 0
               /\ streamRate' = 0
    /\ UNCHANGED <<drvVars, portVars, queueVars, envVars, options, isReady, bufferSize,
                   sampleRate, rack, frame, eventsIn, aud, mid>>

\* lines 326-344. stopStream returns when the running callback has returned;
\* it may throw RtError. closeStream follows in either case.
close_stream ==
    /\ ctl.pc = "close_stream"
    /\ stream = "running" => aud.pc = "idle"
    /\ \E stopThrows \in (IF stream = "running" THEN BOOLEAN ELSE {FALSE}) :
          IF stopThrows /\ ~ctl.hasError
          THEN /\ lastError' = "RtError: stopStream"
               /\ ctl' = [ctl EXCEPT !.pc = "close_midi", !.i = 1, !.hasError = TRUE,
                                     !.call.stopThrows = stopThrows]
          ELSE /\ lastError' = lastError
               /\ ctl' = [ctl EXCEPT !.pc = "close_midi", !.i = 1,
                                     !.call.stopThrows = stopThrows]
    /\ stream' = "closed"
    /\ streamFrames' = 0
    /\ streamRate' = 0
    /\ UNCHANGED <<drvVars, portVars, queueVars, envVars, options, isReady, bufferSize,
                   sampleRate, rack, frame, eventsIn, aud, mid>>

\* lines 346-353 with a delete that does not wait for the running callback
close_midi_noJoin ==
    /\ ctl.pc = "close_midi"
    /\ IF ctl.i > Len(fMidiIns)
       THEN /\ ctl' = [ctl EXCEPT !.pc = "close_final", !.i = 0]
            /\ UNCHANGED <<midiInAlive, midiInCallback>>
       ELSE IF fMidiIns[ctl.i].h \in midiInCallback
       THEN /\ midiInCallback' = midiInCallback \ {fMidiIns[ctl.i].h}
            /\ UNCHANGED <<midiInAlive, ctl>>
       ELSE /\ midiInAlive' = midiInAlive \ {fMidiIns[ctl.i].h}
            /\ ctl' = [ctl EXCEPT !.i = @ + 1]
            /\ UNCHANGED midiInCallback
    /\ UNCHANGED <<drvVars, fMidiIns, fMidiOuts, midiOutAlive, queueVars, strmVars,
                   engVars, envVars, frame, eventsIn, aud, mid>>

\* lines 346-353, one step of the loop: it.valid() ends the loop (346), or
\* the port's callback is cancelled (351), or the handle of the port whose
\* callback was cancelled is deleted (352) and the loop moves on; delete
\* returns when the handle's callback thread has ended
close_midi ==
    /\ ctl.pc = "close_midi"
    /\ IF ctl.i > Len(fMidiIns)
       THEN /\ ctl' = [ctl EXCEPT !.pc = "close_final", !.i = 0]
            /\ UNCHANGED <<midiInAlive, midiInCallback>>
       ELSE IF fMidiIns[ctl.i].h \in midiInCallback
       THEN /\ midiInCallback' = midiInCallback \ {fMidiIns[ctl.i].h}
            /\ UNCHANGED <<midiInAlive, ctl>>
       ELSE /\ mid[fMidiIns[ctl.i].h].pc = "idle"
            /\ midiInAlive' = midiInAlive \ {fMidiIns[ctl.i].h}
            /\ ctl' = [ctl EXCEPT !.i = @ + 1]
            /\ UNCHANGED midiInCallback
    /\ UNCHANGED <<drvVars, fMidiIns, fMidiOuts, midiOutAlive, queueVars, strmVars,
                   engVars, envVars, frame, eventsIn, aud, mid>>

\* lines 355-375, and for the call from init lines 305-306. The RtMidiOut
\* objects are deleted; fMidiInEvents.clear() takes the mutex.
close_final ==
    /\ ctl.pc = "close_final"
    /\ mutex = Free
    /\ fAudioInCount' = 0
    /\ fAudioOutCount' = 0
    /\ fLastEventTime' = 0
    /\ fDeviceName' = ""
    /\ data' = <<>>
    /\ dataPending' = <<>>
    /\ fMidiIns' = <<>>
    /\ fMidiOuts' = <<>>
    /\ midiOutAlive' = midiOutAlive \ { fMidiOuts[i].h : i \in 1..Len(fMidiOuts) }   \* 360
    /\ IF ctl.caller = "init"
       THEN /\ lastError' = ctl.err
            /\ ctl' = AtReturn(ctl.call)
       ELSE /\ lastError' = lastError
            /\ ctl' = AtReturn([Returned("close", ~ctl.hasError) EXCEPT
                                   !.engineFailed = ctl.call.engineFailed,
                                   !.stopThrows = ctl.call.stopThrows])
    /\ UNCHANGED <<midiInAlive, midiInCallback, mutex, strmVars, envVars, options, isReady, bufferSize,
                   sampleRate, rack, frame, eventsIn, aud, mid>>

(***************************************************************************)
(* The rack MIDI ports, lines 739-890.  The host calls them on an engine   *)
(* whose rack graph exists.                                                *)
(***************************************************************************)
\* the first index of list whose entry has that name, 0 when there is none
FindByName(list, name) ==
    LET hits == { i \in 1..Len(list) : list[i].name = name }
    IN  IF hits = {} THEN 0 ELSE CHOOSE i \in hits : \A j \in hits : i <= j

\* the removal of every entry that has the name of entry i
RemoveAt_everyNamesake(list, i) ==
    SelectSeq(list, LAMBDA e : e.name # list[i].name)

RemoveAt(list, i) == [j \in 1..(Len(list) - 1) |-> IF j < i THEN list[j] ELSE list[j + 1]]

\* the names in a list of MidiPort
PortNames(list) == { list[i].name : i \in 1..Len(list) }

\* the record of a MIDI port call: the name asked for, whether the native
\* port was visible, whether openPort threw, and fMidiIns' names before
PortCall(op, ret, portName, natives, openThrows) ==
    [Returned(op, ret) EXCEPT
        !.portName = portName,
        !.notFound = (FindByName(PortNameToId(0, natives), portName) = 0),
        !.openThrows = openThrows,
        !.preIns = PortNames(fMidiIns)]

\* lines 739-791: new RtMidiIn and setCallback (751-753), the search of the
\* native ports (756-773), openPort (775-781), the append (783-790)
connectRackMidiInPort(portName, openThrows) ==
    /\ ctl.pc = "idle"
    /\ rack.alive
    /\ midiInAlive # Handles
    /\ LET h == CHOOSE x \in Handles \ midiInAlive :
                    \A y \in Handles \ midiInAlive : x <= y
           call(ret) == PortCall("connectRackMidiInPort", ret, portName, midiSources,
                                 openThrows)
       IN  IF Len(rack.midiIns) = 0                      \* 745
           THEN /\ ctl' = AtReturn([call(FALSE) EXCEPT !.notFound = FALSE,
                                                       !.openThrows = FALSE])
                /\ UNCHANGED portVars
           ELSE IF FindByName(PortNameToId(0, midiSources), portName) = 0   \* 756-773
           THEN /\ ctl' = AtReturn([call(FALSE) EXCEPT !.openThrows = FALSE])
                /\ UNCHANGED portVars
           ELSE IF openThrows                            \* 775-781
           THEN /\ ctl' = AtReturn(call(FALSE))
                /\ UNCHANGED portVars
           ELSE /\ fMidiIns' = Append(fMidiIns, [name |-> portName, h |-> h])  \* 783-790
                /\ midiInAlive' = midiInAlive \cup {h}
                /\ midiInCallback' = midiInCallback \cup {h}
                /\ UNCHANGED <<fMidiOuts, midiOutAlive>>
                /\ ctl' = AtReturn(call(TRUE))
    /\ UNCHANGED <<drvVars, queueVars, strmVars, engVars, envVars, frame, eventsIn,
                   aud, mid>>

\* lines 793-837: new RtMidiOut (805), the search of the native ports
\* (808-825), openPort (827), the append (829-836). openPort is not guarded:
\* an exception leaves the function with the RtMidiOut object alive.
connectRackMidiOutPort(portName, openThrows) ==
    /\ ctl.pc = "idle"
    /\ rack.alive
    /\ midiOutAlive # Handles
    /\ LET h == CHOOSE x \in Handles \ midiOutAlive :
                    \A y \in Handles \ midiOutAlive : x <= y
           call(ret) == PortCall("connectRackMidiOutPort", ret, portName, midiSinks,
                                 openThrows)
       IN  IF Len(rack.midiIns) = 0                      \* 799
           THEN /\ ctl' = AtReturn([call(FALSE) EXCEPT !.notFound = FALSE,
                                                       !.openThrows = FALSE])
                /\ UNCHANGED portVars
           ELSE IF FindByName(PortNameToId(0, midiSinks), portName) = 0   \* 808-825
           THEN /\ ctl' = AtReturn([call(FALSE) EXCEPT !.openThrows = FALSE])
                /\ UNCHANGED portVars
           ELSE IF openThrows                            \* 827
           THEN /\ ctl' = AtReturn([call(FALSE) EXCEPT !.threw = TRUE])
                /\ midiOutAlive' = midiOutAlive \cup {h}
                /\ UNCHANGED <<fMidiIns, fMidiOuts, midiInAlive, midiInCallback>>
           ELSE /\ fMidiOuts' = Append(fMidiOuts, [name |-> portName, h |-> h])  \* 829-836
                /\ midiOutAlive' = midiOutAlive \cup {h}
                /\ UNCHANGED <<fMidiIns, midiInAlive, midiInCallback>>
                /\ ctl' = AtReturn(call(TRUE))
    /\ UNCHANGED <<drvVars, queueVars, strmVars, engVars, envVars, frame, eventsIn,
                   aud, mid>>

\* lines 839-864 with delete before cancelCallback: the handle is deleted and
\* removed while its callback is registered
disconnectRackMidiInPort_deleteFirst(portName) ==
    /\ ctl.pc = "idle"
    /\ rack.alive
    /\ LET i == FindByName(fMidiIns, portName)
           call(ret) == [Returned("disconnectRackMidiInPort", ret) EXCEPT
                            !.portName = portName, !.preIns = PortNames(fMidiIns)]
       IN  IF Len(rack.midiIns) = 0 \/ i = 0
           THEN /\ ctl' = AtReturn(call(FALSE))
                /\ UNCHANGED portVars
           ELSE /\ mid[fMidiIns[i].h].pc = "idle"
                /\ midiInAlive' = midiInAlive \ {fMidiIns[i].h}
                /\ midiInCallback' = midiInCallback \ {fMidiIns[i].h}
                /\ fMidiIns' = RemoveAt(fMidiIns, i)
                /\ ctl' = AtReturn(call(TRUE))
                /\ UNCHANGED <<fMidiOuts, midiOutAlive>>
    /\ UNCHANGED <<drvVars, queueVars, strmVars, engVars, envVars, frame, eventsIn,
                   aud, mid>>

\* lines 839-857: the search of fMidiIns by name, and for the first match
\* cancelCallback (857)
disconnectRackMidiInPort(portName) ==
    /\ ctl.pc = "idle"
    /\ rack.alive
    /\ LET i == FindByName(fMidiIns, portName)
           call(ret) == [Returned("disconnectRackMidiInPort", ret) EXCEPT
                            !.portName = portName, !.preIns = PortNames(fMidiIns)]
       IN  IF Len(rack.midiIns) = 0 \/ i = 0             \* 845, 863
           THEN /\ ctl' = AtReturn(call(FALSE))
                /\ UNCHANGED portVars
           ELSE /\ midiInCallback' = midiInCallback \ {fMidiIns[i].h}    \* 857
                /\ ctl' = [CtlIdle EXCEPT !.pc = "disconnect_delete", !.i = i,
                                          !.call = call(TRUE)]
                /\ UNCHANGED <<fMidiIns, fMidiOuts, midiInAlive, midiOutAlive>>
    /\ UNCHANGED <<drvVars, queueVars, strmVars, engVars, envVars, frame, eventsIn,
                   aud, mid>>

\* lines 858-861: delete, which returns when the handle's callback thread has
\* ended, then the removal from fMidiIns
disconnect_delete ==
    /\ ctl.pc = "disconnect_delete"
    /\ mid[fMidiIns[ctl.i].h].pc = "idle"
    /\ midiInAlive' = midiInAlive \ {fMidiIns[ctl.i].h}
    /\ fMidiIns' = RemoveAt(fMidiIns, ctl.i)
    /\ ctl' = AtReturn(ctl.call)
    /\ UNCHANGED <<drvVars, fMidiOuts, midiInCallback, midiOutAlive, queueVars, strmVars,
                   engVars, envVars, frame, eventsIn, aud, mid>>

\* lines 866-890
disconnectRackMidiOutPort(portName) ==
    /\ ctl.pc = "idle"
    /\ rack.alive
    /\ LET i == FindByName(fMidiOuts, portName)
           call(ret) == [Returned("disconnectRackMidiOutPort", ret) EXCEPT
                            !.portName = portName]
       IN  IF Len(rack.midiIns) = 0 \/ i = 0             \* 872, 889
           THEN /\ ctl' = AtReturn(call(FALSE))
                /\ UNCHANGED portVars
           ELSE /\ fMidiOuts' = RemoveAt(fMidiOuts, i)    \* 881-886
                /\ midiOutAlive' = midiOutAlive \ {fMidiOuts[i].h}
                /\ UNCHANGED <<fMidiIns, midiInAlive, midiInCallback>>
                /\ ctl' = AtReturn(call(TRUE))
    /\ UNCHANGED <<drvVars, queueVars, strmVars, engVars, envVars, frame, eventsIn,
                   aud, mid>>

(***************************************************************************)
(* handleMidiCallback, lines 701-735, run by the callback thread of an     *)
(* RtMidiIn handle.  fLastEventTime is read and written without a lock,    *)
(* so each access of lines 721-724 is a step of its own.                   *)
(***************************************************************************)
RatLess(a, b) == a.n * b.d < b.n * a.d

\* lines 713-716 without line 711: the clamp of a timeStamp that was not halved
NormalizeTimeStamp_notHalved(ts) ==
    IF RatLess(Rat(95, 100), ts) THEN Rat(95, 100)
    ELSE IF RatLess(ts, Rat(0, 1)) THEN Rat(0, 1)
    ELSE ts

\* lines 711-716 without the upper limit of lines 713-714
NormalizeTimeStamp_noUpperClamp(ts) ==
    LET half == Rat(ts.n, ts.d * 2)
    IN  IF RatLess(half, Rat(0, 1)) THEN Rat(0, 1)
        ELSE half

\* lines 711-716: timeStamp /= 2, then the clamp to [0.0, 0.95]
NormalizeTimeStamp(ts) ==
    LET half == Rat(ts.n, ts.d * 2)
    IN  IF RatLess(Rat(95, 100), half) THEN Rat(95, 100)
        ELSE IF RatLess(half, Rat(0, 1)) THEN Rat(0, 1)
        ELSE half

\* line 719: uint64_t(timeStamp * (double)bufferSize), a truncation of a value
\* that is not negative
FramesOf(ts, bs) == (ts.n * bs) \div ts.d

MidiEventTime(ts, f, bs) == f + FramesOf(NormalizeTimeStamp(ts), bs)

\* events queued or on their way to the queue
InFlight == Len(data) + Len(dataPending) + Cardinality({h \in Handles : mid[h].pc # "idle"})

\* lines 703-719 without the upper limit of line 708: a callback that takes
\* a message of any size but 0
mc_enter_anySize(h, timeStamp, messageSize) ==
    /\ h \in midiInAlive
    /\ h \in midiInCallback
    /\ mid[h].pc = "idle"
    /\ IF ~isReady \/ messageSize = 0
       THEN mid' = [mid EXCEPT ![h] = [MidIdle EXCEPT !.pc = "return",
                                                      !.size = messageSize]]
       ELSE mid' = [mid EXCEPT ![h] =
                       [pc |-> "compare",
                        time |-> MidiEventTime(timeStamp, frame, bufferSize),
                        size |-> messageSize,
                        raw |-> timeStamp, base |-> frame, bs |-> bufferSize]]
    /\ UNCHANGED <<drvVars, portVars, queueVars, strmVars, engVars, envVars, frame,
                   eventsIn, ctl, aud>>

\* lines 703-719
mc_enter(h, timeStamp, messageSize) ==
    /\ h \in midiInAlive
    /\ h \in midiInCallback
    /\ mid[h].pc = "idle"
    /\ IF ~isReady                                              \* 703-704
       THEN mid' = [mid EXCEPT ![h] = [MidIdle EXCEPT !.pc = "return",
                                                      !.size = messageSize]]
       ELSE IF messageSize = 0 \/ messageSize > kDataSize       \* 708-709
       THEN mid' = [mid EXCEPT ![h] = [MidIdle EXCEPT !.pc = "return",
                                                      !.size = messageSize]]
       ELSE mid' = [mid EXCEPT ![h] =
                       [pc |-> "compare",
                        time |-> MidiEventTime(timeStamp, frame, bufferSize),
                        size |-> messageSize,
                        raw |-> timeStamp, base |-> frame, bs |-> bufferSize]]
    /\ UNCHANGED <<drvVars, portVars, queueVars, strmVars, engVars, envVars, frame,
                   eventsIn, ctl, aud>>

\* the return of lines 704 and 709
mc_return(h) ==
    /\ mid[h].pc = "return"
    /\ mid' = [mid EXCEPT ![h] = MidIdle]
    /\ UNCHANGED <<drvVars, portVars, queueVars, strmVars, engVars, envVars, frame,
                   eventsIn, ctl, aud>>

\* lines 721-724 without the comparison: the time is stored as computed
mc_compare_noRaise(h) ==
    /\ mid[h].pc = "compare"
    /\ mid' = [mid EXCEPT ![h] = [MidIdle EXCEPT !.pc = "store", !.time = mid[h].time,
                                                 !.size = mid[h].size]]
    /\ UNCHANGED <<drvVars, portVars, queueVars, strmVars, engVars, envVars, frame,
                   eventsIn, ctl, aud>>

\* line 721, the comparison. When it finds the time to be earlier, line 722
\* assigns the value this read gave, or reads fLastEventTime again.
mc_compare(h) ==
    /\ mid[h].pc = "compare"
    /\ IF mid[h].time < fLastEventTime
       THEN \E again \in BOOLEAN :
              mid' = [mid EXCEPT ![h] =
                        IF again THEN [MidIdle EXCEPT !.pc = "reload", !.time = mid[h].time,
                                                      !.size = mid[h].size]
                        ELSE [MidIdle EXCEPT !.pc = "lock", !.time = fLastEventTime,
                                             !.size = mid[h].size]]
       ELSE mid' = [mid EXCEPT ![h] = [MidIdle EXCEPT !.pc = "store", !.time = mid[h].time,
                                                      !.size = mid[h].size]]
    /\ UNCHANGED <<drvVars, portVars, queueVars, strmVars, engVars, envVars, frame,
                   eventsIn, ctl, aud>>

\* line 722 with a second read of fLastEventTime
mc_reload(h) ==
    /\ mid[h].pc = "reload"
    /\ mid' = [mid EXCEPT ![h].pc = "lock", ![h].time = fLastEventTime]
    /\ UNCHANGED <<drvVars, portVars, queueVars, strmVars, engVars, envVars, frame,
                   eventsIn, ctl, aud>>

\* line 724
mc_store(h) ==
    /\ mid[h].pc = "store"
    /\ fLastEventTime' = mid[h].time
    /\ mid' = [mid EXCEPT ![h].pc = "lock"]
    /\ UNCHANGED <<fAudioInCount, fAudioOutCount, fDeviceName, portVars, queueVars,
                   strmVars, engVars, envVars, frame, eventsIn, ctl, aud>>

\* lines 726-734 and 940: appendNonRT waits for the mutex
mc_lock(h) ==
    /\ mid[h].pc = "lock"
    /\ mutex = Free
    /\ mutex' = ByMidi(h)
    /\ mid' = [mid EXCEPT ![h].pc = "append"]
    /\ UNCHANGED <<drvVars, portVars, data, dataPending, strmVars, engVars, envVars,
                   frame, eventsIn, ctl, aud>>

\* an RtMidiEvent; h is the handle whose callback made it (history)
RtMidiEvent(t, size, h) == [time |-> t, size |-> size, h |-> h]

\* lines 941-942 with the event appended to data
mc_append_toData(h) ==
    /\ mid[h].pc = "append"
    /\ data' = Append(data, RtMidiEvent(mid[h].time, mid[h].size, h))
    /\ mutex' = Free
    /\ mid' = [mid EXCEPT ![h] = MidIdle]
    /\ UNCHANGED <<drvVars, portVars, dataPending, strmVars, engVars, envVars, frame,
                   eventsIn, ctl, aud>>

\* lines 941-942
mc_append(h) ==
    /\ mid[h].pc = "append"
    /\ dataPending' = Append(dataPending, RtMidiEvent(mid[h].time, mid[h].size, h))
    /\ mutex' = Free
    /\ mid' = [mid EXCEPT ![h] = MidIdle]
    /\ UNCHANGED <<drvVars, portVars, data, strmVars, engVars, envVars, frame,
                   eventsIn, ctl, aud>>

(***************************************************************************)
(* handleAudioProcessCallback, lines 617-699, run by the RtAudio callback  *)
(* thread while the stream runs.                                           *)
(***************************************************************************)
\* the nframes the driver may call back with: the buffer size of the stream,
\* or another one
FrameCounts == {streamFrames, streamFrames + 1}

\* runPendingRtEvents (engine code) ends every cycle. It publishes the
\* transport position: unchanged when the transport is stopped, advanced by
\* the buffer size when it is rolling, 0 when it was rewound.
NextFrames ==
    {frame, 0} \cup (IF frame + bufferSize <= MaxFrame THEN {frame + bufferSize} ELSE {})

\* the output region the driver hands over: nframes * output channels samples
Region(nframes, v) == [i \in 1..(nframes * fAudioOutCount) |-> v]

\* FLOAT_CLEAR(outsPtr, count), line 642
FLOAT_CLEAR(outs, count) == [i \in 1..Len(outs) |-> IF i <= count THEN "zero" ELSE outs[i]]

\* an early return to runPendingRtEvents (lines 624-628): the output region
\* is as the driver handed it over
EarlyReturn(path, nframes, outNull) ==
    /\ aud' = [AudIdle EXCEPT
                  !.pc = "rtevents", !.path = path, !.nframes = nframes,
                  !.outs = IF outNull THEN <<>> ELSE Region(nframes, "stale")]
    /\ UNCHANGED eventsIn

\* lines 620-645 without the check of line 625
ac_enter_noSizeCheck(nframes, outNull) ==
    /\ aud.pc = "idle"
    /\ stream = "running"
    /\ IF outNull
       THEN EarlyReturn("null-output", nframes, outNull)
       ELSE IF ~isReady
       THEN EarlyReturn("not-ready", nframes, outNull)
       ELSE /\ aud' = [AudIdle EXCEPT
                          !.pc = "trylock", !.nframes = nframes,
                          !.outs = FLOAT_CLEAR(Region(nframes, "stale"),
                                               nframes * fAudioOutCount)]
            /\ eventsIn' = <<>>
    /\ UNCHANGED <<drvVars, portVars, queueVars, strmVars, engVars, envVars, frame,
                   ctl, mid>>

\* lines 620-645
ac_enter(nframes, outNull) ==
    /\ aud.pc = "idle"
    /\ stream = "running"
    /\ IF outNull                                   \* 624
       THEN EarlyReturn("null-output", nframes, outNull)
       ELSE IF bufferSize # nframes                 \* 625
       THEN EarlyReturn("size-mismatch", nframes, outNull)
       ELSE IF ~isReady                             \* 627-628
       THEN EarlyReturn("not-ready", nframes, outNull)
       ELSE \* 630-645
            /\ aud' = [AudIdle EXCEPT
                          !.pc = "trylock", !.nframes = nframes,
                          !.outs = FLOAT_CLEAR(Region(nframes, "stale"),
                                               nframes * fAudioOutCount)]
            /\ eventsIn' = <<>>
    /\ UNCHANGED <<drvVars, portVars, queueVars, strmVars, engVars, envVars, frame,
                   ctl, mid>>

\* line 647 with lock() in the place of tryLock(): the callback waits for
\* the mutex
ac_trylock_blocking ==
    /\ aud.pc = "trylock"
    /\ mutex = Free
    /\ mutex' = ByAudio
    /\ aud' = [aud EXCEPT !.pc = "splice", !.locked = TRUE]
    /\ UNCHANGED <<drvVars, portVars, data, dataPending, strmVars, engVars, envVars,
                   frame, eventsIn, ctl, mid>>

\* line 647 with the result of tryLock() ignored: lines 649-676 run whether
\* or not the mutex was taken
ac_trylock_ignored ==
    /\ aud.pc = "trylock"
    /\ IF mutex = Free
       THEN /\ mutex' = ByAudio
            /\ aud' = [aud EXCEPT !.pc = "splice", !.locked = TRUE]
       ELSE /\ mutex' = mutex
            /\ aud' = [aud EXCEPT !.pc = "splice", !.locked = FALSE]
    /\ UNCHANGED <<drvVars, portVars, data, dataPending, strmVars, engVars, envVars,
                   frame, eventsIn, ctl, mid>>

\* line 647
ac_trylock ==
    /\ aud.pc = "trylock"
    /\ IF mutex = Free
       THEN /\ mutex' = ByAudio
            /\ aud' = [aud EXCEPT !.pc = "splice", !.locked = TRUE]
       ELSE /\ mutex' = mutex
            /\ aud' = [aud EXCEPT !.pc = "process", !.locked = FALSE]
    /\ UNCHANGED <<drvVars, portVars, data, dataPending, strmVars, engVars, envVars,
                   frame, eventsIn, ctl, mid>>

\* RtMidiEvents::splice, lines 953-956 (called at line 650)
splice ==
    /\ data' = data \o dataPending
    /\ dataPending' = <<>>

ac_splice ==
    /\ aud.pc = "splice"
    /\ splice
    /\ aud' = [aud EXCEPT !.pc = "translate"]
    /\ UNCHANGED <<drvVars, portVars, mutex, strmVars, engVars, envVars, frame,
                   eventsIn, ctl, mid>>

\* lines 657-667: engineEvent.time for an event stamped t in a cycle that
\* starts at frame s and spans nframes. The casts to uint32_t change no value
\* below 2^32, and the frames of the model stay far below.
EngineEventTime(t, s, nframes) ==
    IF t < s THEN 0
    ELSE IF t >= s + nframes THEN s + nframes - 1
    ELSE t - s

\* lines 652-673: the entries of pData->events.in the loop fills. The loop
\* leaves after kMaxEngineEventInternalCount entries. stamp, start, nframes
\* and h record what the entry was made from (history).
Translate(list, s, nframes) ==
    [i \in 1..Min(Len(list), kMaxEngineEventInternalCount) |->
        [time |-> EngineEventTime(list[i].time, s, nframes), size |-> list[i].size,
         stamp |-> list[i].time, start |-> s, nframes |-> nframes, h |-> list[i].h]]

\* lines 652-676
ac_translate ==
    /\ aud.pc = "translate"
    /\ eventsIn' = Translate(data, frame, aud.nframes)
    /\ data' = <<>>
    /\ mutex' = Free
    /\ aud' = [aud EXCEPT !.pc = "process"]
    /\ UNCHANGED <<drvVars, portVars, dataPending, strmVars, engVars, envVars, frame,
                   ctl, mid>>

\* lines 679-691: processRackFull for the rack
ac_process ==
    /\ aud.pc = "process"
    /\ aud' = [aud EXCEPT
                  !.pc = "rtevents", !.path = "full",
                  !.outs = IF isRack THEN [i \in 1..Len(aud.outs) |-> "audio"]
                           ELSE aud.outs,
                  !.processed = IF isRack THEN 1 ELSE 0]
    /\ UNCHANGED <<drvVars, portVars, queueVars, strmVars, engVars, envVars, frame,
                   eventsIn, ctl, mid>>

\* runPendingRtEvents and the return of the callback: line 693, and the
\* returns of lines 624-628
ac_rtevents(f) ==
    /\ aud.pc = "rtevents"
    /\ f \in NextFrames
    /\ frame' = f
    /\ aud' = AudIdle
    /\ UNCHANGED <<drvVars, portVars, queueVars, strmVars, engVars, envVars, eventsIn,
                   ctl, mid>>

(***************************************************************************)
(* The threads and the specifications.                                     *)
(***************************************************************************)
\* the host's calls other than init
HostCalls ==
    \/ patchbayRefresh
    \/ \E n \in MidiInNames, t \in BOOLEAN : connectRackMidiInPort(n, t)
    \/ \E n \in MidiOutNames, t \in BOOLEAN : connectRackMidiOutPort(n, t)
    \/ \E n \in MidiInNames : disconnectRackMidiInPort(n)
    \/ disconnect_delete
    \/ \E n \in MidiOutNames : disconnectRackMidiOutPort(n)

\* the steps the control thread takes inside init and close
ControlSteps ==
    \/ ctl_return
    \/ init_ready
    \/ init_refresh
    \/ close_enter
    \/ close_stream
    \/ close_midi
    \/ close_final

AudioThread ==
    \/ \E n \in FrameCounts, z \in BOOLEAN : ac_enter(n, z)
    \/ ac_trylock
    \/ ac_splice
    \/ ac_translate
    \/ ac_process
    \/ \E f \in 0..MaxFrame : ac_rtevents(f)

\* the callback thread of handle h, given messages with the time stamps and
\* sizes of two sets; a message is delivered while fewer than cap events are
\* queued or on their way
MidiThreadOf(h, cap, stamps, sizes) ==
    \/ /\ InFlight < cap
       /\ \E ts \in stamps, n \in sizes : mc_enter(h, ts, n)
    \/ mc_return(h)
    \/ mc_compare(h)
    \/ mc_reload(h)
    \/ mc_store(h)
    \/ mc_lock(h)
    \/ mc_append(h)

MidiThread(h, cap) == MidiThreadOf(h, cap, RawStamps, MessageSizes)

(***************************************************************************)
(* SpecOpen: the control thread opening and closing the driver, with init  *)
(* given every option and every audio subsystem.                           *)
(***************************************************************************)
NextOpen ==
    \/ init_enter(Options, Subsystems)
    \/ init_rejected
    \/ ControlSteps

SpecOpen == Init /\ [][NextOpen]_vars

(***************************************************************************)
(* Spec: the control thread, the audio callback thread and the callback    *)
(* thread of one MIDI input.  init is given the default device of a        *)
(* full-duplex card and a stream that opens and starts.                    *)
(***************************************************************************)
RtOptions ==
    { o \in Options : /\ o.processMode \in {"CONTINUOUS_RACK", "PATCHBAY"}
                      /\ o.audioDevice = "" }
RtSubsystems ==
    { s \in Subsystems : /\ s.devs = <<DevDuplex>>
                         /\ ~s.openThrows
                         /\ ~s.startThrows
                         /\ s.frames = 2
                         /\ s.rate = 44100 }

\* the host connects one MIDI input
connectOne ==
    /\ midiInAlive = {}
    /\ connectRackMidiInPort("in:a", FALSE)

Next ==
    \/ init_enter(RtOptions, RtSubsystems)
    \/ ControlSteps
    \/ connectOne
    \/ AudioThread
    \/ \E h \in Handles : MidiThread(h, MaxQueue)

Spec == Init /\ [][Next]_vars

(***************************************************************************)
(* SpecLive: the threads of Spec, with MIDI messages of one time stamp and *)
(* one size.  The RtAudio callback thread is scheduled whenever it can     *)
(* run; no MIDI callback and no host call need ever happen.                *)
(***************************************************************************)
NextLive ==
    \/ init_enter(RtOptions, RtSubsystems)
    \/ ControlSteps
    \/ connectOne
    \/ AudioThread
    \/ \E h \in Handles : MidiThreadOf(h, MaxQueue, {Rat(60, 100), Rat(300, 100)}, {kDataSize})

SpecLive == Init /\ [][NextLive]_vars /\ WF_vars(AudioThread)

(***************************************************************************)
(* SpecMidi: the callback threads of two MIDI inputs and the control       *)
(* thread, with no audio cycle draining the queue.                         *)
(***************************************************************************)
NextMidi ==
    \/ init_enter(RtOptions, RtSubsystems)
    \/ ControlSteps
    \/ \E n \in {"in:a", "in:b"} : connectRackMidiInPort(n, FALSE)
    \/ \E n \in {"in:a", "in:b"} : disconnectRackMidiInPort(n)
    \/ disconnect_delete
    \/ \E h \in Handles : MidiThread(h, MaxPending)

SpecMidi == Init /\ [][NextMidi]_vars

(***************************************************************************)
(* SpecPorts: the control thread with every call of the host, on a driver  *)
(* that opens.                                                             *)
(***************************************************************************)
NextPorts ==
    \/ init_enter(RtOptions, RtSubsystems)
    \/ ControlSteps
    \/ HostCalls

SpecPorts == Init /\ [][NextPorts]_vars

(***************************************************************************)
(* SpecGraph: the control thread with patchbayRefresh, on a driver that    *)
(* opens, while the engine's graph gains audio connections, the host       *)
(* connects one MIDI input and one MIDI output and the platform loses a    *)
(* MIDI source.                                                            *)
(***************************************************************************)
NextGraph ==
    \/ init_enter(RtOptions, RtSubsystems)
    \/ ControlSteps
    \/ patchbayRefresh
    \/ \E w \in {"connectedIn1", "connectedIn2", "connectedOut1", "connectedOut2"},
          p \in AudioPortIds : rack_connectAudio(w, p)
    \/ midiInAlive = {} /\ connectRackMidiInPort("in:b", FALSE)
    \/ midiOutAlive = {} /\ connectRackMidiOutPort("out:a", FALSE)
    \/ midiSources_unplug

SpecGraph == Init /\ [][NextGraph]_vars

(***************************************************************************)
(* SpecSeq: the threads of Spec with two MIDI inputs whose callbacks run   *)
(* one at a time: a message is delivered, on either port, only when no     *)
(* callback is running.  The messages have two time stamps and one size;   *)
(* the audio thread runs full-size cycles that drain the queue and move    *)
(* the frame counter forwards and back.                                    *)
(***************************************************************************)
\* the audio callback thread given the committed frame count and an output
\* buffer
AudioThreadFull ==
    \/ ac_enter(streamFrames, FALSE)
    \/ ac_trylock
    \/ ac_splice
    \/ ac_translate
    \/ ac_process
    \/ \E f \in 0..MaxFrame : ac_rtevents(f)

\* the host connects the two MIDI inputs, one after the other
connectTwo ==
    \/ fMidiIns = <<>> /\ connectRackMidiInPort("in:a", FALSE)
    \/ Len(fMidiIns) = 1 /\ connectRackMidiInPort("in:b", FALSE)

\* the callback thread of handle h while no other callback is running
MidiThreadAlone(h) ==
    /\ \A g \in Handles \ {h} : mid[g].pc = "idle"
    /\ MidiThreadOf(h, MaxQueue, {Rat(60, 100), Rat(300, 100)}, {kDataSize})

NextSeq ==
    \/ init_enter(RtOptions, RtSubsystems)
    \/ ControlSteps
    \/ connectTwo
    \/ AudioThreadFull
    \/ \E h \in Handles : MidiThreadAlone(h)

SpecSeq == Init /\ [][NextSeq]_vars

(***************************************************************************)
(* SpecForward: the threads of Spec with a frame counter that no cycle     *)
(* moves back: runPendingRtEvents leaves it or advances it.                *)
(***************************************************************************)
AudioThreadForward ==
    \/ \E n \in FrameCounts, z \in BOOLEAN : ac_enter(n, z)
    \/ ac_trylock
    \/ ac_splice
    \/ ac_translate
    \/ ac_process
    \/ \E f \in frame..MaxFrame : ac_rtevents(f)

NextForward ==
    \/ init_enter(RtOptions, RtSubsystems)
    \/ ControlSteps
    \/ connectOne
    \/ AudioThreadForward
    \/ \E h \in Handles : MidiThread(h, MaxQueue)

SpecForward == Init /\ [][NextForward]_vars

(***************************************************************************)
(* Properties of handleAudioProcessCallback and handleMidiCallback.        *)
(***************************************************************************)
\* the offset of an event stamped t in the window of nframes frames that
\* starts at frame s: t - s inside the window, 0 before it, nframes - 1 from
\* its end on
WindowOffset(t, s, nframes) ==
    IF t < s THEN 0
    ELSE IF t >= s + nframes THEN nframes - 1
    ELSE t - s

\* C1: every entry of pData->events.in made from a drained event stamped t, in
\* a cycle starting at frame s with n frames, has the offset t - s when
\* s <= t < s + n, 0 when t < s and n - 1 when t >= s + n, for every s.
C1_OffsetInWindow ==
    \A i \in 1..Len(eventsIn) :
        eventsIn[i].time = WindowOffset(eventsIn[i].stamp, eventsIn[i].start,
                                        eventsIn[i].nframes)

\* the times of the events of handle h in a list, in the order of the list
TimesOf(list, h) ==
    LET F[i \in 0..Len(list)] ==
            IF i = 0 THEN <<>>
            ELSE IF list[i].h = h THEN Append(F[i - 1], list[i].time)
            ELSE F[i - 1]
    IN  F[Len(list)]

NonDecreasing(seq) == \A i, j \in 1..Len(seq) : i <= j => seq[i] <= seq[j]

\* C2: with two MIDI inputs open and their callbacks running concurrently,
\* the times of the events of each input, in the order they were appended to
\* fMidiInEvents (data, then dataPending), never decrease.
C2_PerPortNonDecreasing ==
    \A h \in Handles : NonDecreasing(TimesOf(data \o dataPending, h))

\* clamp(f / 2, 0.0, 0.95) for a rational f
ClampedHalf(f) ==
    LET half == Rat(f.n, 2 * f.d)
        low  == IF RatLess(half, Rat(0, 1)) THEN Rat(0, 1) ELSE half
    IN  IF RatLess(Rat(95, 100), low) THEN Rat(95, 100) ELSE low

\* floor(x * k) for a rational x >= 0 and a natural k
FloorTimes(x, k) == CHOOSE m \in 0..k : m * x.d <= x.n * k /\ x.n * k < (m + 1) * x.d

\* C3: a message that passed the checks of lines 703-709 with the raw time
\* stamp f gets, before the comparison with fLastEventTime, the time
\* frame + floor(clamp(f / 2, 0.0, 0.95) * bufferSize); f = 3.0 is clamped to
\* 0.95 and a negative f to 0.0.
C3_TimeBeforeRaise ==
    \A h \in Handles :
        mid[h].pc = "compare" =>
            /\ mid[h].time = mid[h].base + FloorTimes(ClampedHalf(mid[h].raw), mid[h].bs)
            /\ mid[h].raw = Rat(300, 100) =>
                   mid[h].time = mid[h].base + FloorTimes(Rat(95, 100), mid[h].bs)
            /\ mid[h].raw.n < 0 => mid[h].time = mid[h].base

\* a message with the raw time stamp 3.0 arrived while the frame counter
\* was not 0, and was stamped frame + floor(0.95 * bufferSize)
C3_Witness ==
    \E h \in Handles :
        /\ mid[h].pc = "compare"
        /\ mid[h].raw = Rat(300, 100)
        /\ mid[h].base > 0
        /\ mid[h].time = mid[h].base + 1

\* a step of the callback of handle h that is part of a call returning at
\* line 709: the message is empty or larger than kDataSize
DropStep(h) ==
    /\ mid'[h] # mid[h]
    /\ \/ mid[h].pc = "return" /\ mid[h].size \notin 1..kDataSize
       \/ mid'[h].pc = "return" /\ mid'[h].size \notin 1..kDataSize

\* C4: a call of handleMidiCallback with a message of size 0 or of a size
\* above kDataSize changes neither list of fMidiInEvents nor fLastEventTime,
\* and every event in data or dataPending, or on its way there, has a size
\* in 1..kDataSize.
C4_BadSizeDropped ==
    /\ [][\A h \in Handles :
              DropStep(h) => UNCHANGED <<data, dataPending, fLastEventTime>>]_vars
    /\ [](/\ \A i \in 1..Len(data) : data[i].size \in 1..kDataSize
          /\ \A i \in 1..Len(dataPending) : dataPending[i].size \in 1..kDataSize
          /\ \A h \in Handles :
                 mid[h].pc \notin {"idle", "return"} => mid[h].size \in 1..kDataSize)

\* an oversized message is being returned from while the driver is ready and
\* an event is pending
C4_Witness ==
    \E h \in Handles :
        /\ mid[h].pc = "return"
        /\ mid[h].size > kDataSize
        /\ isReady
        /\ Len(dataPending) > 0

\* C5: when a cycle with a non-null output buffer comes to
\* runPendingRtEvents, on the full path or on an early return, no sample of
\* the output region is as the driver handed it over: the region was zeroed.
C5_OutputZeroed ==
    aud.pc = "rtevents" /\ aud.path # "null-output" =>
        /\ Len(aud.outs) = aud.nframes * fAudioOutCount
        /\ \A i \in 1..Len(aud.outs) : aud.outs[i] # "stale"

\* C6: the callback takes fMidiInEvents.mutex by tryLock only: at line 647
\* it can step whoever holds the mutex, and every cycle that began reaches
\* its return.
C6_NeverWaits ==
    /\ [](aud.pc = "trylock" => ENABLED ac_trylock)
    /\ (aud.pc # "idle") ~> (aud.pc = "idle")

\* a cycle reached runPendingRtEvents on the full path without the mutex,
\* which a MIDI callback thread holds
C6_Witness ==
    /\ aud.pc = "rtevents"
    /\ aud.path = "full"
    /\ ~aud.locked
    /\ mutex.by = "midi"

\* the callback is past line 647 in a cycle whose tryLock failed
InFailedCycle ==
    /\ ~aud.locked
    /\ \/ aud.pc \in {"splice", "translate", "process"}
       \/ aud.pc = "rtevents" /\ aud.path = "full"

\* C7: a cycle whose tryLock failed removes nothing from dataPending: during
\* it the list only grows at its end. Events leave dataPending only by the
\* splice of a cycle that holds the mutex, which moves all of them to data,
\* or by the clear of close.
C7_FailedLockKeepsPending ==
    [][/\ (InFailedCycle \/ (aud.pc = "trylock" /\ mutex # Free))
            => IsPrefix(dataPending, dataPending')
       /\ ~IsPrefix(dataPending, dataPending')
            => \/ /\ aud.pc = "splice" /\ aud.locked
                  /\ data' = data \o dataPending
                  /\ dataPending' = <<>>
               \/ ctl.pc = "close_final"]_vars

\* a cycle whose tryLock failed is at its end with an event pending
C7_Witness ==
    /\ InFailedCycle
    /\ aud.pc = "rtevents"
    /\ Len(dataPending) > 0

(***************************************************************************)
(* Properties of init.                                                     *)
(***************************************************************************)
\* init returned
InitReturned == ctl.pc = "returned" /\ ctl.call.op = "init"

NoDevicesError == "No audio devices available for this driver"
NoOutputsError == "Current audio setup has no outputs, cannot continue"

\* C8: an init that returns false (invalid process mode, no devices, no
\* outputs, openStream or startStream throwing) has set a last error (the
\* "No audio devices" one when there is no device) and leaves no stream
\* open, both channel counts 0, the driver not ready and fDeviceName as it
\* was before the call.
C8_FailedInitLeavesClosed ==
    InitReturned /\ ~ctl.call.ret =>
        /\ lastError # ""
        /\ (ctl.call.noDevices /\ ~ctl.call.badMode) => lastError = NoDevicesError
        /\ stream = "closed"
        /\ fAudioInCount = 0 /\ fAudioOutCount = 0
        /\ ~isReady
        /\ fDeviceName = ctl.call.preDev

\* init returned false with the "no outputs" error and opened no stream
FailedNoOutputs ==
    /\ ~ctl.call.ret
    /\ lastError = NoOutputsError
    /\ stream = "closed"

\* C9 as the specification states it: init with a device of 0 output
\* channels, be it the configured device or the default device of an init
\* without configured device, fails with the "no outputs" error and opens
\* no stream (on an audio subsystem whose openStream and startStream do not
\* throw, so that nothing else fails).
C9_NoOutputsAlwaysFails ==
    (/\ InitReturned
     /\ ~ctl.call.badMode /\ ~ctl.call.noDevices
     /\ ~ctl.call.openThrows /\ ~ctl.call.startThrows
     /\ \/ ctl.call.namedNoOut
        \/ options.audioDevice = "" /\ ctl.call.defaultNoOut)
        => FailedNoOutputs

\* C9: init fails with the "no outputs" error and opens no stream when the
\* default output device has 0 output channels and no probed device with
\* outputs has the configured name. A configured device of 0 output channels
\* is not selected: init goes on with the default device, and succeeds when
\* that one has outputs and the stream opens and starts.
C9_SelectedNoOutputsFails ==
    (InitReturned /\ ~ctl.call.badMode /\ ~ctl.call.noDevices) =>
        /\ (ctl.call.defaultNoOut /\ ~ctl.call.namedWithOut) => FailedNoOutputs
        /\ (/\ ctl.call.namedNoOut /\ ~ctl.call.namedWithOut
            /\ ~ctl.call.defaultNoOut
            /\ ~ctl.call.openThrows /\ ~ctl.call.startThrows) => ctl.call.ret

\* init was given the name of a device of 0 output channels, went on with a
\* default device of 0 output channels and failed
C9_Witness ==
    /\ InitReturned
    /\ ctl.call.namedNoOut /\ ctl.call.defaultNoOut
    /\ FailedNoOutputs

\* C10: after an init that returns true, pData->bufferSize and
\* pData->sampleRate are the buffer size and the sample rate of the open
\* stream, whatever the options asked for.
C10_NegotiatedValues ==
    (InitReturned /\ ctl.call.ret) =>
        /\ stream = "running"
        /\ bufferSize = streamFrames
        /\ sampleRate = streamRate

\* init returned true on a stream that settled on another buffer size and
\* another sample rate than the options asked for
C10_Witness ==
    /\ InitReturned /\ ctl.call.ret
    /\ bufferSize # options.audioBufferSize
    /\ sampleRate # options.audioSampleRate

(***************************************************************************)
(* Properties of close and of the rack MIDI port calls.                    *)
(***************************************************************************)
\* the control thread is inside close
InClose == ctl.pc \in {"close_stream", "close_midi", "close_final"}

\* C11: close is not aborted by an error.  Whenever close returns, and so
\* also when stopStream threw, the stream is closed, no RtMidiIn object is
\* left, the RtMidiOut object of every port in fMidiOuts is deleted, both
\* queue lists and both port lists are empty and the channel counts are 0;
\* and when stopStream threw in a call of the host, close returns false and
\* the last error is the first one met (that of CarlaEngine::close when it
\* failed, else that of stopStream).
C11_CloseNeverAborts ==
    [][ (InClose /\ ctl'.pc = "returned") =>
          /\ stream' = "closed"
          /\ midiInAlive' = {}
          /\ \A i \in 1..Len(fMidiOuts) : fMidiOuts[i].h \notin midiOutAlive'
          /\ data' = <<>> /\ dataPending' = <<>>
          /\ fMidiIns' = <<>> /\ fMidiOuts' = <<>>
          /\ fAudioInCount' = 0 /\ fAudioOutCount' = 0
          /\ (ctl.caller = "host" /\ ctl.call.stopThrows) =>
                /\ ctl'.call.op = "close"
                /\ ~ctl'.call.ret
                /\ lastError' = (IF ctl.call.engineFailed
                                 THEN "CarlaEngine::close failed"
                                 ELSE "RtError: stopStream") ]_vars

\* stopStream threw and close went on: the RtMidiIn objects of the ports in
\* fMidiIns are gone and the call is about to delete the RtMidiOut objects
C11_Witness ==
    /\ ctl.pc = "close_final"
    /\ ctl.caller = "host"
    /\ ctl.call.stopThrows /\ ~ctl.call.engineFailed
    /\ ctl.hasError
    /\ stream = "closed"
    /\ fMidiIns # <<>> /\ fMidiOuts # <<>>
    /\ midiInAlive = {}

\* C12: an RtMidiIn object is deleted only by close (line 352) or by
\* disconnectRackMidiInPort (line 858), and only after an earlier step cancelled
\* its callback; a callback starts only on a handle whose object exists, and
\* no callback is running on a handle once its object is deleted.
C12_CancelBeforeDelete ==
    [][ \A h \in Handles :
          /\ (h \in midiInAlive /\ h \notin midiInAlive') =>
                /\ ctl.pc \in {"close_midi", "disconnect_delete"}
                /\ h \notin midiInCallback
          /\ (mid[h].pc = "idle" /\ mid'[h].pc # "idle") => h \in midiInAlive
          /\ h \notin midiInAlive' => mid'[h].pc = "idle" ]_vars

\* disconnectRackMidiInPort has cancelled the callback of a port while a
\* callback of that port is running, and waits to delete the handle
C12_Witness ==
    /\ ctl.pc = "disconnect_delete"
    /\ fMidiIns[ctl.i].h \in midiInAlive \ midiInCallback
    /\ mid[fMidiIns[ctl.i].h].pc # "idle"

\* C13: when connectRackMidiInPort(X) has returned true, what
\* disconnectRackMidiInPort(X) does next (it finds X and removes the first
\* entry of that name from fMidiIns) leaves fMidiIns with the set of names
\* it had before the connect, whether or not X was among them.
C13_RoundTripKeepsNames ==
    (ctl.pc = "returned" /\ ctl.call.op = "connectRackMidiInPort" /\ ctl.call.ret) =>
        LET i == FindByName(fMidiIns, ctl.call.portName)
        IN  /\ Len(rack.midiIns) # 0 /\ i # 0
            /\ PortNames(RemoveAt(fMidiIns, i)) = ctl.call.preIns

\* connectRackMidiInPort(X) has returned true for an X that was connected before
C13_Witness ==
    /\ ctl.pc = "returned" /\ ctl.call.op = "connectRackMidiInPort" /\ ctl.call.ret
    /\ ctl.call.portName \in ctl.call.preIns
    /\ Len(fMidiIns) = 2

\* C14: when connectRackMidiInPort or connectRackMidiOutPort meets a native
\* failure (no visible port of that name, or openPort throwing), the call
\* returns, its return value is false, no RtMidiIn or RtMidiOut object is left
\* over from it, and fMidiIns and fMidiOuts are as before.
C14_NativeFailureReleases ==
    [][ ( /\ ctl.pc = "idle" /\ ctl'.pc = "returned"
          /\ ctl'.call.op \in {"connectRackMidiInPort", "connectRackMidiOutPort"}
          /\ (ctl'.call.notFound \/ ctl'.call.openThrows) ) =>
          /\ ~ctl'.call.threw
          /\ ~ctl'.call.ret
          /\ midiInAlive' = midiInAlive /\ midiInCallback' = midiInCallback
          /\ midiOutAlive' = midiOutAlive
          /\ fMidiIns' = fMidiIns /\ fMidiOuts' = fMidiOuts ]_vars

(***************************************************************************)
(* Properties of patchbayRefresh.                                          *)
(***************************************************************************)
\* the host's call of patchbayRefresh is at its return
RefreshReturned == ctl.pc = "returned" /\ ctl.call.op = "patchbayRefresh"

\* the entries of kind k in what a refresh did, in program order
DidOfKind(log, k) == SelectSeq(log, LAMBDA e : e.k = k)

\* C15: the ids of the CONNECTION_ADDED callbacks of one refresh are
\* strictly increasing in the order of the callbacks (so no two are equal),
\* over the six loops and with connections skipped by the range check.
C15_IdsIncreaseInPass ==
    RefreshReturned =>
        LET c == DidOfKind(ctl.call.emitted, "connection")
        IN  \A i, j \in 1..Len(c) : i < j => c[i].id < c[j].id

\* a refresh that announced an audio connection, a MIDI-in and a MIDI-out
\* connection and skipped an audio connection whose port is out of range
C15_Witness ==
    /\ RefreshReturned
    /\ LET c == DidOfKind(ctl.call.emitted, "connection")
           G == RACK_GRAPH_GROUP
       IN  /\ \E i \in 1..Len(c) : c[i].groupA = G.AUDIO_IN \/ c[i].groupB = G.AUDIO_OUT
           /\ \E i \in 1..Len(c) : c[i].groupA = G.MIDI_IN
           /\ \E i \in 1..Len(c) : c[i].groupB = G.MIDI_OUT
           /\ Len(c) = 3
    /\ Len(rack.connectedIn1) + Len(rack.connectedIn2) + Len(rack.connectedOut1)
          + Len(rack.connectedOut2) = 2

EndpointPairs(list) ==
    { Endpoints(list[i].groupA, list[i].portA, list[i].groupB, list[i].portB) :
        i \in 1..Len(list) }

\* C17: when patchbayRefresh has returned, a second refresh of the rack as it
\* is then (the same audio connections, the same fMidiIns and fMidiOuts, the
\* same visible native ports) leaves a connection list with the same set of
\* endpoint pairs as the first left.
C17_RefreshTwiceSamePairs ==
    (RefreshReturned /\ ctl.call.ret /\ isRack) =>
        EndpointPairs(patchbayRefreshRack(rack).list) = EndpointPairs(rack.list)

\* a refresh has left audio and MIDI connections in the connection list
C17_Witness ==
    /\ RefreshReturned /\ ctl.call.ret
    /\ \E i \in 1..Len(rack.list) : rack.list[i].groupA = RACK_GRAPH_GROUP.MIDI_IN
    /\ \E i \in 1..Len(rack.list) : rack.list[i].groupA = RACK_GRAPH_GROUP.AUDIO_IN
    /\ \E i \in 1..Len(rack.list) : rack.list[i].groupB = RACK_GRAPH_GROUP.AUDIO_OUT

\* the callbacks among what a refresh did, in the order they were made
Notified(log) == SelectSeq(log, LAMBDA e : e.k \in {"group", "port", "connection"})

\* the groups in the order patchbayRefreshRack announces them
GroupOrder ==
    LET G == RACK_GRAPH_GROUP
    IN  <<G.CARLA, G.AUDIO_IN, G.AUDIO_OUT, G.MIDI_IN, G.MIDI_OUT>>

\* in the callbacks n: the groups are announced once each, in GroupOrder; the
\* ports of a group come after its group and before the next group; the
\* connections come after every group and port
InFixedOrder(n) ==
    /\ [i \in 1..Len(DidOfKind(n, "group")) |-> DidOfKind(n, "group")[i].groupA] = GroupOrder
    /\ \A i, j \in 1..Len(n) :
          /\ (n[i].k = "group" /\ n[j].k = "port" /\ n[j].groupA = n[i].groupA) => i < j
          /\ (n[i].k = "port" /\ n[j].k = "group" /\ i < j) => n[i].groupA # n[j].groupA
          /\ (n[i].k # "connection" /\ n[j].k = "connection") => i < j

\* in the callbacks n, callback j announced the group g and callback i its port p
AnnouncedBy(n, i, j, g, p) ==
    /\ n[j].k = "group" /\ n[j].groupA = g
    /\ n[i].k = "port" /\ n[i].groupA = g /\ n[i].portA = p

\* C18: the callbacks of a rack refresh come in the fixed order (internal
\* group, capture, playback, MIDI-in, MIDI-out, then the connections), each
\* group before its ports, and every CONNECTION_ADDED callback comes after
\* the CLIENT_ADDED and PORT_ADDED callbacks of both its endpoints.
C18_NotificationOrder ==
    (RefreshReturned /\ ctl.call.ret /\ isRack) =>
        LET n == Notified(ctl.call.emitted)
        IN  /\ InFixedOrder(n)
            /\ \A c \in 1..Len(n) : n[c].k = "connection" =>
                  /\ \E i, j \in 1..(c - 1) : AnnouncedBy(n, i, j, n[c].groupA, n[c].portA)
                  /\ \E i, j \in 1..(c - 1) : AnnouncedBy(n, i, j, n[c].groupB, n[c].portB)

LockHeldAt(log, i) ==
    \E l \in 1..(i - 1) :
        /\ log[l].k = "lock"
        /\ \A u \in (l + 1)..(i - 1) : log[u].k # "unlock"

\* C20: whatever a refresh does to the connection list and to lastId (the
\* clear of line 419, every increment of lastId, every append, for audio and
\* for MIDI connections) it does between the lock of line 511 and the
\* unlock of line 573.
C20_MutationsUnderLock ==
    (RefreshReturned /\ ctl.call.ret /\ isRack) =>
        \A i \in 1..Len(ctl.call.emitted) :
            ctl.call.emitted[i].k \in {"clear", "lastId", "append"} =>
                LockHeldAt(ctl.call.emitted, i)

(***************************************************************************)
(* Properties of the event queue shared by the callback threads.           *)
(***************************************************************************)
\* C21: the audio thread holds fMidiInEvents.mutex for the splice only: when
\* it reads and translates fMidiInEvents.data it has released the mutex, so
\* no MIDI callback waits at appendNonRT during the translation.
C21_LockOnlyForSplice ==
    aud.pc = "translate" => mutex # ByAudio

\* C22: while the audio thread is at the loop over fMidiInEvents.data, no
\* step of another thread changes that list; a MIDI callback thread never
\* changes it; and the control thread changes it (the clear of close) only
\* when the audio thread is outside lines 649-676.
C22_ActiveListStable ==
    [][ /\ (aud.pc = "translate" /\ aud' = aud) => data' = data
        /\ (mid' # mid) => data' = data
        /\ (ctl' # ctl /\ data' # data) => aud.pc \notin {"splice", "translate"} ]_vars

\* the audio thread is at the loop with events to read while a MIDI callback
\* waits for the mutex
C22_Witness ==
    /\ aud.pc = "translate"
    /\ data # <<>>
    /\ \E h \in Handles : mid[h].pc = "lock"

\* the paths of lines 624-628
EarlyPaths == {"null-output", "size-mismatch", "not-ready"}

\* C24: every path through handleAudioProcessCallback runs
\* runPendingRtEvents exactly once, as its last step: the callback returns
\* only from the hook, reaches the hook only from the entry checks or from
\* the end of processing, and does nothing after it. When the output pointer
\* is null, nframes differs from pData->bufferSize or the engine is not
\* ready, the cycle goes from the entry to the hook: it processes the graph
\* zero times and leaves pData->events.in and the event queue as they were.
C24_HookOnceAndEarlyReturns ==
    [][ /\ (aud.pc # "idle" /\ aud'.pc = "idle") => aud.pc = "rtevents"
        /\ (aud.pc # "rtevents" /\ aud'.pc = "rtevents") => aud.pc \in {"idle", "process"}
        /\ (aud.pc = "rtevents" /\ aud' # aud) => aud' = AudIdle
        /\ (aud.pc = "idle" /\ aud'.pc # "idle"
              /\ (aud'.path = "null-output" \/ aud'.nframes # bufferSize \/ ~isReady))
           => /\ aud'.pc = "rtevents"
              /\ aud'.path \in EarlyPaths
              /\ aud'.processed = 0
              /\ eventsIn' = eventsIn
              /\ data' = data /\ dataPending' = dataPending
        /\ (aud'.pc = "rtevents" /\ aud'.path \in EarlyPaths) => aud'.processed = 0 ]_vars

\* a cycle that found the engine not ready is at the hook with events still
\* pending, and a cycle with a wrong frame count is at the hook
C24_Witness ==
    /\ aud.pc = "rtevents"
    /\ \/ aud.path = "not-ready" /\ dataPending # <<>>
       \/ aud.path = "size-mismatch" /\ isReady /\ dataPending # <<>>
    /\ aud.processed = 0

\* C28: while the driver stays open, every event the MIDI callbacks queued is
\* translated by the cycle that drains the queue: the loop over
\* fMidiInEvents.data makes one entry of pData->events.in per queued event,
\* in queue order, before the list is cleared, whatever the number of events
\* in the list.
C28_EveryDrainedEventTranslated ==
    [][ (aud.pc = "translate" /\ aud'.pc = "process")
        => /\ Len(eventsIn') = Len(data)
           /\ \A i \in 1..Len(data) : eventsIn'[i].stamp = data[i].time ]_vars

\* what close leaves of the driver's own state (lines 363-373)
ClosedClean ==
    /\ fAudioInCount = 0 /\ fAudioOutCount = 0
    /\ fLastEventTime = 0
    /\ data = <<>> /\ dataPending = <<>>
    /\ fMidiIns = <<>> /\ fMidiOuts = <<>>

\* no MIDI callback is between its entry and its return
NoCallbackRunning == \A h \in Handles : mid[h].pc = "idle"

\* C26: when close returns, the channel counts and fLastEventTime are 0,
\* both queue lists and both port lists are empty and no MIDI callback is
\* still running; from then on every step that is not a call of init keeps
\* it so, and a call of init in that state is not turned away by the
\* assertions of lines 201-203. A MIDI callback that passed its isReady
\* check before close cleared the flag ends before close resets the state.
C26_ClosedStateIsClean ==
    [][ /\ (InClose /\ ctl'.pc = "returned") => (ClosedClean' /\ NoCallbackRunning')
        /\ (/\ stream = "closed" /\ ctl.pc \in {"idle", "returned"}
            /\ ClosedClean /\ NoCallbackRunning
            /\ ~(ctl.pc = "idle" /\ ctl'.call.op = "init"))
           => (ClosedClean' /\ NoCallbackRunning' /\ ctl'.call.op # "init:assert") ]_vars

\* close has cancelled the port's callback and waits in delete for a
\* callback that passed the isReady check before the flag was cleared
C26_Witness ==
    /\ ctl.pc = "close_midi"
    /\ ctl.caller # "init"
    /\ ~isReady
    /\ \E h \in Handles : /\ h \in midiInAlive \ midiInCallback
                          /\ mid[h].pc \notin {"idle", "return"}

\* the times of the queued events, oldest first
QueuedTimes == [i \in 1..(Len(data) + Len(dataPending)) |->
                   IF i <= Len(data) THEN data[i].time ELSE dataPending[i - Len(data)].time]

\* C23: with the MIDI callbacks running one at a time, on whichever port and
\* whatever the raw time stamps and the frame counter: an event is appended
\* to dataPending with a time that is fLastEventTime and is not below the
\* time of any event queued before it, and fLastEventTime decreases in no
\* step but the reset of close.
C23_SequentialIngestMonotone ==
    [][ /\ (fLastEventTime' < fLastEventTime) => ctl.pc = "close_final"
        /\ \A h \in Handles :
             (mid[h].pc = "append" /\ mid'[h].pc = "idle")
             => /\ dataPending' = Append(dataPending, dataPending'[Len(dataPending')])
                /\ dataPending'[Len(dataPending')].time = fLastEventTime
                /\ \A i \in 1..Len(QueuedTimes) :
                      QueuedTimes[i] <= dataPending'[Len(dataPending')].time ]_vars

\* events of the two ports are queued, the later one after the frame counter
\* went back behind the last event time
C23_Witness ==
    /\ Len(dataPending) >= 2
    /\ dataPending[1].h # dataPending[2].h
    /\ dataPending[2].time = fLastEventTime
    /\ fLastEventTime > frame + bufferSize

\* C29: with a frame counter that never decreases, a cycle whose nframes is
\* pData->bufferSize finds every event it drains stamped below
\* frame + nframes: the branch of lines 661-665 is not taken, neither for an
\* event the loop is about to read nor for one it has translated.
C29_NoFutureEvent ==
    /\ aud.pc = "translate" =>
          \A i \in 1..Len(data) : data[i].time < frame + aud.nframes
    /\ \A i \in 1..Len(eventsIn) :
          eventsIn[i].stamp < eventsIn[i].start + eventsIn[i].nframes

\* a cycle that starts after the counter advanced is about to read an event
\* stamped inside its window, past the window's first frame
C29_Witness ==
    /\ aud.pc = "translate"
    /\ aud.nframes = bufferSize
    /\ frame > 0
    /\ data # <<>>
    /\ data[Len(data)].time > frame

\* C25: connectRackMidiOutPort(portName) returns true and appends one port
\* named portName to fMidiOuts whenever a visible native MIDI output has
\* that name and openPort does not throw, however many native MIDI inputs
\* are visible; it returns false only when no native output has the name or
\* openPort threw.
C25_ConnectOutputNeedsSinkOnly ==
    [][ (ctl.pc = "idle" /\ ctl'.pc = "returned"
           /\ ctl'.call.op = "connectRackMidiOutPort")
        => LET visible == FindByName(PortNameToId(0, midiSinks), ctl'.call.portName) # 0
           IN  /\ (visible /\ ~ctl'.call.openThrows)
                  => /\ ctl'.call.ret
                     /\ Len(fMidiOuts') = Len(fMidiOuts) + 1
                     /\ fMidiOuts'[Len(fMidiOuts')].name = ctl'.call.portName
               /\ ~ctl'.call.ret => (~visible \/ ctl'.call.openThrows) ]_vars

\* C27: when a refresh of the rack returns, rack->midi.ins holds exactly one
\* entry per visible native MIDI input and rack->midi.outs exactly one per
\* visible native MIDI output, however many refreshes came before.
C27_PortTablesMatchNative ==
    (RefreshReturned /\ ctl.call.ret /\ rack.alive) =>
        /\ Len(rack.midiIns) = Len(midiSources)
        /\ Len(rack.midiOuts) = Len(midiSinks)
        /\ \A i \in 1..Len(midiSources) :
              Cardinality({ j \in 1..Len(rack.midiIns) :
                               rack.midiIns[j].name = midiSources[i] }) = 1
        /\ \A i \in 1..Len(midiSinks) :
              Cardinality({ j \in 1..Len(rack.midiOuts) :
                               rack.midiOuts[j].name = midiSinks[i] }) = 1

=============================================================================
